---- MODULE Spec2Model ----
(***************************************************************************)
(* A model of the renderer process of WebTorrent Desktop                   *)
(* (src/renderer/main.js and src/renderer/controllers/media-controller.js):*)
(* the playback session (openPlayer / openPlayerFromActiveTorrent /        *)
(* closePlayer), the subtitle ingestion (addSubtitles / loadSubtitle /     *)
(* relabelSubtitles), the playback-rate ladder and the engine-event        *)
(* handlers (torrentDone, ...).                                            *)
(*                                                                         *)
(* Conventions.                                                            *)
(*  - JavaScript arrays are sequences; an index i of the source is i+1     *)
(*    here.                                                                *)
(*  - An index that is undefined or null in the source is 0 here; a      *)
(*    seek or volume request that is undefined is -1; the volume v of the  *)
(*    source is the integer 10*v.                                          *)
(*  - A playback rate r of the source is the integer 4*r here (the source  *)
(*    moves in steps of 0.25, every value it reaches is a multiple of it). *)
(*  - Every handler is an operator from the program state (a record of all *)
(*    variables) to the program state; an action applies one handler.      *)
(*  - trace is the observable record of the handler that ran last: its     *)
(*    call, and what it sent (ipcRenderer.send), played (sound.play),      *)
(*    logged (telemetry) and called back (cb), in order; tally counts the  *)
(*    same entries over the whole run.                                     *)
(***************************************************************************)
EXTENDS Integers, Sequences, FiniteSets, TLC

VARIABLES
  playing,         \* state.playing
  torrents,        \* state.saved.torrents
  server,          \* state.server
  errors,          \* state.errors
  location,        \* state.location
  sessions,        \* the closures of openPlayer: one per call of playFile
  ingests,         \* the closures of addSubtitles: one per call that started loads
  engine,          \* events the engine still owes the renderer
  trace,           \* what the handler that ran last did, in order
  tally,           \* how often each entry of trace occurred so far
  window,          \* state.window
  dock,            \* state.dock
  previousVolume,  \* state.previousVolume
  sys              \* the host: system locale and the subtitle files on disk

vars == <<playing, torrents, server, errors, location, sessions, ingests,
          engine, trace, tally, window, dock, previousVolume, sys>>

Undefined == "undefined"
Null == "null"

(* Bounds of the model *)
MaxOpens == 2
MaxRateCmds == 12
MaxIngests == 2
MaxDone == 3
MaxFocus == 2
MaxSubOpens == 1
MaxMediaOpens == 1
MaxCmds == 3
MaxAggEvents == 4
MaxPickOpens == 1
MaxRelabels == 3
MaxTracks == 3

Hashes == {"k1", "k2"}

----------------------------------------------------------------------------
(* The program state as one record, and its write-back *)

St ==
  [playing |-> playing, torrents |-> torrents, server |-> server,
   errors |-> errors, location |-> location, sessions |-> sessions,
   ingests |-> ingests, engine |-> engine, trace |-> trace, tally |-> tally,
   window |-> window, dock |-> dock, previousVolume |-> previousVolume]

Becomes(s) ==
  /\ playing' = s.playing
  /\ torrents' = s.torrents
  /\ server' = s.server
  /\ errors' = s.errors
  /\ location' = s.location
  /\ sessions' = s.sessions
  /\ ingests' = s.ingests
  /\ engine' = s.engine
  /\ trace' = s.trace
  /\ tally' = s.tally
  /\ window' = s.window
  /\ dock' = s.dock
  /\ previousVolume' = s.previousVolume
  /\ UNCHANGED sys

Ev(kind, name, item, sess, arg) ==
  [kind |-> kind, name |-> name, item |-> item, sess |-> sess, arg |-> arg]

Key(e) == <<e.kind, e.name, e.item, e.sess>>

Log(s, e) ==
  [s EXCEPT !.trace = Append(@, e),
            !.tally = [k \in DOMAIN @ \cup {Key(e)} |->
                         IF k = Key(e)
                         THEN (IF k \in DOMAIN @ THEN @[k] ELSE 0) + 1
                         ELSE @[k]]]

(* A handler is entered: dispatch(action, ...args), an ipc event or a timer *)
Enter(s, name, item, sess, arg) ==
  Log([s EXCEPT !.trace = <<>>], Ev("call", name, item, sess, arg))

(* The engine answers wt-start-torrenting with one wt-ready-<hash> and     *)
(* wt-start-server with wt-server-running followed by wt-server-<hash>.    *)
engineReacts(s, name, item) ==
  CASE name = "wt-start-torrenting" -> [s EXCEPT !.engine.ready[item] = @ + 1]
    [] name = "wt-start-server" -> [s EXCEPT !.engine.server[item] = @ + 1]
    [] OTHER -> s

(* ipcRenderer.send(name, ...) issued on behalf of session sess (0: none) *)
send(s, name, item, sess) ==
  engineReacts(Log(s, Ev("ipc", name, item, sess, Undefined)), name, item)

playSound(s, tag) == Log(s, Ev("sound", tag, Undefined, 0, Undefined))

logPlayAttempt(s, result, sess) ==
  Log(s, Ev("telemetry", result, Undefined, sess, Undefined))

(* Cast.play(), Cast.pause(), Cast.stop(), ...: a command to the remote target *)
castCmd(s, name) == Log(s, Ev("cast", name, Undefined, 0, Undefined))

onError(s, msg) ==
  LET s1 == playSound(s, "ERROR")
  IN [s1 EXCEPT !.errors = Append(@, msg)]

----------------------------------------------------------------------------
(* state.js, torrent-player.js, torrent-summary.js *)

getDefaultPlayState ==
  [infoHash |-> Null, fileIndex |-> 0, location |-> "local", type |-> Null,
   isPaused |-> TRUE, isStalled |-> FALSE, playbackRate |-> 4, volume |-> 10,
   jumpToTime |-> -1, setVolume |-> -1, result |-> Undefined,
   subtitles |-> [tracks |-> <<>>, selectedIndex |-> 0, showMenu |-> FALSE]]

isVideo(file) == file.kind = "video"
isAudio(file) == file.kind = "audio"

(* TorrentSummary.getByKey: the position of the summary, 0 if there is none *)
getTorrentSummary(s, key) ==
  LET found == {i \in DOMAIN s.torrents :
                  s.torrents[i].torrentKey = key \/ s.torrents[i].infoHash = key}
  IN IF found = {} THEN 0 ELSE CHOOSE i \in found : \A j \in found : i <= j

isCasting(s) == s.playing.location \in {"chromecast", "airplay", "dlna"}

----------------------------------------------------------------------------
(* pickFileToPlay *)

Indices(files, Keep(_)) ==
  SelectSeq([i \in 1..Len(files) |-> i], LAMBDA i : Keep(files[i]))

RECURSIVE reduceLargest(_, _, _, _)
reduceLargest(files, idx, j, a) ==
  IF j > Len(idx) THEN a
  ELSE reduceLargest(files, idx, j + 1,
         IF files[a].length > files[idx[j]].length THEN a ELSE idx[j])

(* pickFileToPlay that takes the first video file, whatever its size *)
pickFileToPlayFirstVideo(files) ==
  LET videoFiles == Indices(files, isVideo)
      audioFiles == Indices(files, isAudio)
  IN IF Len(videoFiles) > 0 THEN videoFiles[1]
     ELSE IF Len(audioFiles) > 0 THEN audioFiles[1]
     ELSE 0

pickFileToPlay(files) ==
  LET videoFiles == Indices(files, isVideo)
      audioFiles == Indices(files, isAudio)
  IN IF Len(videoFiles) > 0 THEN reduceLargest(files, videoFiles, 2, videoFiles[1])
     ELSE IF Len(audioFiles) > 0 THEN audioFiles[1]
     ELSE 0

----------------------------------------------------------------------------
(* Subtitles: addSubtitles, loadSubtitle, isSystemLanguage, relabelSubtitles *)

(* langDetected.slice(0, 1).toUpperCase() + langDetected.slice(1) *)
capitalize(word) ==
  CASE word = "english" -> "English"
    [] word = "german" -> "German"
    [] word = "subtitle" -> "Subtitle"
    [] OTHER -> word

(* iso639.getCode(language): '' for a name that is no language *)
getCode(language) ==
  CASE language = "English" -> "en"
    [] language = "German" -> "de"
    [] OTHER -> ""

(* window.navigator.language.split('-')[0] *)
osLangISO(language) ==
  CASE language = "en-US" -> "en"
    [] language = "de-DE" -> "de"
    [] OTHER -> language

isSystemLanguage(language) == getCode(language) = osLangISO(sys.language)

(* The track loadSubtitle hands to cb for a file that was read and parsed; *)
(* detected is the best guess of LanguageDetect, "none" if it has none     *)
loadSubtitle(filePath, detected) ==
  LET langDetected == capitalize(IF detected = "none" THEN "subtitle" ELSE detected)
  IN [language |-> langDetected, label |-> <<langDetected>>, filePath |-> filePath]

RECURSIVE relabelWalk(_, _, _)
relabelWalk(tracks, i, counts) ==
  IF i > Len(tracks) THEN tracks
  ELSE LET lang == tracks[i].language
           n == (IF lang \in DOMAIN counts THEN counts[lang] ELSE 0) + 1
           counts1 == [l \in DOMAIN counts \cup {lang} |->
                         IF l = lang THEN n ELSE counts[l]]
       IN relabelWalk(
            [tracks EXCEPT ![i].label = IF n > 1 THEN <<lang, n>> ELSE <<lang>>],
            i + 1, counts1)

(* relabelSubtitles that leaves every label as loadSubtitle made it *)
relabelSubtitlesKeepsLabels(s) == s

(* relabelSubtitles that writes the count behind the label a track has *)
relabelSubtitlesAppendsCount(s) ==
  LET tracks == s.playing.subtitles.tracks
      count(i) == Cardinality({j \in 1..i : tracks[j].language = tracks[i].language})
  IN [s EXCEPT !.playing.subtitles.tracks =
        [i \in DOMAIN tracks |->
           IF count(i) > 1
           THEN [tracks[i] EXCEPT !.label = Append(tracks[i].label, count(i))]
           ELSE tracks[i]]]

relabelSubtitles(s) ==
  [s EXCEPT !.playing.subtitles.tracks = relabelWalk(@, 1, <<>>)]

(* The loop without the check for a track of the same file *)
RECURSIVE addTracksWithDupes(_, _, _, _)
addTracksWithDupes(s, tracks, autoSelect, i) ==
  IF i > Len(tracks) THEN s
  ELSE LET track == tracks[i]
           s1 == [s EXCEPT !.playing.subtitles.tracks = Append(@, track)]
           s2 == IF autoSelect /\ (i = 1 \/ isSystemLanguage(track.language))
                 THEN [s1 EXCEPT !.playing.subtitles.selectedIndex =
                                    Len(s1.playing.subtitles.tracks)]
                 ELSE s1
       IN addTracksWithDupes(s2, tracks, autoSelect, i + 1)

(* The loop of the callback addSubtitles gives to parallel() *)
RECURSIVE addTracks(_, _, _, _)
addTracks(s, tracks, autoSelect, i) ==
  IF i > Len(tracks) THEN s
  ELSE LET track == tracks[i]
           dupe == \E j \in DOMAIN s.playing.subtitles.tracks :
                     track.filePath = s.playing.subtitles.tracks[j].filePath
           s1 == [s EXCEPT !.playing.subtitles.tracks = Append(@, track)]
           s2 == IF autoSelect /\ (i = 1 \/ isSystemLanguage(track.language))
                 THEN [s1 EXCEPT !.playing.subtitles.selectedIndex =
                                    Len(s1.playing.subtitles.tracks)]
                 ELSE s1
       IN IF dupe THEN addTracks(s, tracks, autoSelect, i + 1)
          ELSE addTracks(s2, tracks, autoSelect, i + 1)

(* The callback of addSubtitles selecting the first qualifying track only *)
subtitlesLoadedFirstWins(s, tracks, autoSelect) ==
  LET s1 == addTracks(s, tracks, FALSE, 1)
      old == Len(s.playing.subtitles.tracks)
      new == (old + 1)..Len(s1.playing.subtitles.tracks)
      Q == {p \in new : \/ s1.playing.subtitles.tracks[p].filePath = tracks[1].filePath
                        \/ isSystemLanguage(s1.playing.subtitles.tracks[p].language)}
  IN relabelSubtitles(
       IF autoSelect /\ Q # {}
       THEN [s1 EXCEPT !.playing.subtitles.selectedIndex =
                          CHOOSE p \in Q : \A q \in Q : p <= q]
       ELSE s1)

subtitlesLoaded(s, tracks, autoSelect) ==
  relabelSubtitles(addTracks(s, tracks, autoSelect, 1))

(* addSubtitles up to the call of parallel(): one loading task per file *)
addSubtitles(s, files, autoSelect) ==
  IF s.playing.type # "video" THEN s
  ELSE IF Len(files) = 0 THEN s
  ELSE [s EXCEPT !.ingests = Append(@,
          [files |-> files, autoSelect |-> autoSelect, pending |-> Len(files),
           results |-> [i \in 1..Len(files) |->
                          [state |-> "pending", track |-> loadSubtitle(files[i], "none")]]])]

(* The callback loadSubtitle gives to concat(), for task i of ingest c.    *)
(* On an error it reports and never calls cb; otherwise it calls cb, and   *)
(* run-parallel calls the callback of addSubtitles once no task is pending *)
subtitleRead(s, c, i, ok) ==
  IF ~ok
  THEN onError([s EXCEPT !.ingests[c].results[i].state = "failed"],
               "Error parsing subtitles file.")
  ELSE LET in == s.ingests[c]
           track == loadSubtitle(in.files[i], sys.detect[in.files[i]])
           s1 == [s EXCEPT !.ingests[c].results[i] = [state |-> "ok", track |-> track],
                           !.ingests[c].pending = @ - 1]
           tracks == [j \in 1..Len(in.files) |-> s1.ingests[c].results[j].track]
       IN IF s1.ingests[c].pending = 0
          THEN subtitlesLoaded(s1, tracks, in.autoSelect)
          ELSE s1

isSubtitle(name) == name \in {"a.srt", "b.srt", "c.vtt"}

(* checkForSubtitles without the test for missing pieces *)
RECURSIVE checkFilesIgnoresPieces(_, _, _)
checkFilesIgnoresPieces(s, ts, ix) ==
  IF ix > Len(ts.progress.files) THEN s
  ELSE IF ~isSubtitle(ts.files[ix].name) THEN checkFilesIgnoresPieces(s, ts, ix + 1)
  ELSE checkFilesIgnoresPieces(addSubtitles(s, <<ts.files[ix].name>>, FALSE), ts, ix + 1)

RECURSIVE checkFiles(_, _, _)
checkFiles(s, ts, ix) ==
  IF ix > Len(ts.progress.files) THEN s
  ELSE LET fp == ts.progress.files[ix]
           file == ts.files[ix]
       IN IF fp.numPieces # fp.numPiecesPresent THEN checkFiles(s, ts, ix + 1)
          ELSE IF ~isSubtitle(file.name) THEN checkFiles(s, ts, ix + 1)
          ELSE checkFiles(addSubtitles(s, <<file.name>>, FALSE), ts, ix + 1)

checkForSubtitles(s) ==
  IF s.playing.type # "video" THEN s
  ELSE LET tix == getTorrentSummary(s, s.playing.infoHash)
       IN IF tix = 0 THEN s
          ELSE IF ~s.torrents[tix].progress.present THEN s
          ELSE checkFiles(s, s.torrents[tix], 1)

----------------------------------------------------------------------------
(* Playback *)

play(s) ==
  IF ~s.playing.isPaused THEN s
  ELSE LET s1 == [s EXCEPT !.playing.isPaused = FALSE]
           s2 == IF isCasting(s1) THEN castCmd(s1, "play") ELSE s1
       IN send(s2, "onPlayerPlay", Undefined, 0)

pause(s) ==
  IF s.playing.isPaused THEN s
  ELSE LET s1 == [s EXCEPT !.playing.isPaused = TRUE]
           s2 == IF isCasting(s1) THEN castCmd(s1, "pause") ELSE s1
       IN send(s2, "onPlayerPause", Undefined, 0)

(* The callback playFile hands to state.location.go, reached through the   *)
(* cb of onbeforeload: the page is entered, or the error is reported       *)
cb(s, sess, err) ==
  LET s1 == Log(s, Ev("cb", err, s.sessions[sess].item, sess, Undefined))
      s2 == [s1 EXCEPT !.location.pending = IF @ = sess THEN 0 ELSE @]
  IN IF err # "none" THEN onError(s2, err)
     ELSE [s2 EXCEPT !.location.url = "player"]

startTorrentingSummary(s, tix, sess) ==
  send(s, "wt-start-torrenting", s.torrents[tix].infoHash, sess)

openPlayerFromActiveTorrent(s, sess) ==
  LET tix == getTorrentSummary(s, s.sessions[sess].item)
      torrentSummary == s.torrents[tix]
      index == s.sessions[sess].index
      fileSummary == torrentSummary.files[index]
      s1 == [s EXCEPT !.playing.infoHash = torrentSummary.infoHash,
                      !.playing.fileIndex = index,
                      !.playing.type = IF isVideo(fileSummary) THEN "video"
                                       ELSE IF isAudio(fileSummary) THEN "audio"
                                       ELSE "other"]
      (* fraction < 0.9 is 10 * currentTime < 9 * duration for duration > 0 *)
      resume == /\ fileSummary.currentTime # 0
                /\ fileSummary.duration > 0
                /\ 10 * fileSummary.currentTime < 9 * fileSummary.duration
                /\ fileSummary.duration - fileSummary.currentTime > 10
      s2 == IF resume
            THEN [s1 EXCEPT !.playing.jumpToTime = fileSummary.currentTime]
            ELSE s1
      s3 == IF s2.playing.type = "audio" /\ ~fileSummary.audioInfo
            THEN send(s2, "wt-get-audio-metadata", torrentSummary.infoHash, sess)
            ELSE s2
      s4 == checkForSubtitles(s3)
      s5 == send(s4, "wt-start-server", torrentSummary.infoHash, sess)
  IN [s5 EXCEPT !.sessions[sess].phase = "waitServer"]

(* The listener of 'wt-server-<infoHash>' that openPlayerFromActiveTorrent *)
(* registers with ipcRenderer.once                                         *)
serverReady(s, sess) ==
  LET tix == getTorrentSummary(s, s.sessions[sess].item)
      torrentSummary == s.torrents[tix]
      s1 == [s EXCEPT !.sessions[sess].phase = "done",
                      !.sessions[sess].timer = IF @ = "armed" THEN "cleared" ELSE @]
      timedOut == torrentSummary.playStatus = "timeout"
      s2 == [s1 EXCEPT !.torrents[tix].playStatus = "absent"]
  IN IF timedOut THEN send(s2, "wt-stop-server", Undefined, sess)
     ELSE IF s2.playing.fileIndex \notin DOMAIN torrentSummary.files
     THEN (* files[fileIndex] is undefined: reading .name throws *)
          Log(s2, Ev("throw", "TypeError", torrentSummary.infoHash, sess, Undefined))
     ELSE LET s3 == [s2 EXCEPT !.window.title =
                                  torrentSummary.files[s2.playing.fileIndex].name]
              s4 == send(s3, "onPlayerOpen", Undefined, sess)
          IN cb(s4, sess, "none")

(* The function openPlayer hands to setTimeout *)
playbackTimedOut(s, sess) ==
  LET tix == getTorrentSummary(s, s.sessions[sess].item)
      s1 == logPlayAttempt([s EXCEPT !.sessions[sess].timer = "fired"], "timeout", sess)
      s2 == [s1 EXCEPT !.torrents[tix].playStatus = "timeout"]
      s3 == playSound(s2, "ERROR")
  IN cb(s3, sess, "Playback timed out. Try again.")

(* openPlayer that starts no timer while it waits for a paused torrent *)
openPlayerArmsLate(s, sess, infoHash, index) ==
  LET tix == getTorrentSummary(s, infoHash)
      torrentSummary == s.torrents[tix]
      index1 == IF index = 0 THEN torrentSummary.defaultPlayFileIndex ELSE index
      index2 == IF index1 = 0 THEN pickFileToPlay(torrentSummary.files) ELSE index1
  IN IF index2 = 0
     THEN cb([s EXCEPT !.sessions[sess].phase = "done"], sess, "UnplayableError")
     ELSE LET s1 == playSound(s, "PLAY")
              s2 == [s1 EXCEPT !.torrents[tix].playStatus = "requested",
                               !.sessions[sess].index = index2]
          IN IF torrentSummary.status = "paused"
             THEN [startTorrentingSummary(s2, tix, sess)
                     EXCEPT !.sessions[sess].phase = "waitReady"]
             ELSE openPlayerFromActiveTorrent(
                    [s2 EXCEPT !.sessions[sess].timer = "armed"], sess)

(* openPlayer without the branch for a paused torrent *)
openPlayerNeverResumes(s, sess, infoHash, index) ==
  LET tix == getTorrentSummary(s, infoHash)
      torrentSummary == s.torrents[tix]
      index1 == IF index = 0 THEN torrentSummary.defaultPlayFileIndex ELSE index
      index2 == IF index1 = 0 THEN pickFileToPlay(torrentSummary.files) ELSE index1
  IN IF index2 = 0
     THEN cb([s EXCEPT !.sessions[sess].phase = "done"], sess, "UnplayableError")
     ELSE LET s1 == playSound(s, "PLAY")
              s2 == [s1 EXCEPT !.torrents[tix].playStatus = "requested",
                               !.sessions[sess].index = index2,
                               !.sessions[sess].timer = "armed"]
          IN openPlayerFromActiveTorrent(s2, sess)

openPlayer(s, sess, infoHash, index) ==
  LET tix == getTorrentSummary(s, infoHash)
      torrentSummary == s.torrents[tix]
      index1 == IF index = 0 THEN torrentSummary.defaultPlayFileIndex ELSE index
      index2 == IF index1 = 0 THEN pickFileToPlay(torrentSummary.files) ELSE index1
  IN IF index2 = 0
     THEN cb([s EXCEPT !.sessions[sess].phase = "done"], sess, "UnplayableError")
     ELSE LET (* torrentSummary.progress is an object or undefined, never 1 *)
              s1 == playSound(s, "PLAY")
              s2 == [s1 EXCEPT !.torrents[tix].playStatus = "requested",
                               !.sessions[sess].index = index2,
                               !.sessions[sess].timer = "armed"]
          IN IF torrentSummary.status = "paused"
             THEN [startTorrentingSummary(s2, tix, sess)
                     EXCEPT !.sessions[sess].phase = "waitReady"]
             ELSE openPlayerFromActiveTorrent(s2, sess)

(* state.location.go({url: 'player', onbeforeload, onbeforeunload}, cb) *)
playFile(s, infoHash, index) ==
  LET sess == Len(s.sessions) + 1
      s1 == [s EXCEPT !.sessions = Append(@,
               [item |-> infoHash, given |-> index, index |-> index, timer |-> "none",
                phase |-> "init"]),
                      !.location.pending = sess, !.location.page = sess]
  IN openPlayer(play(s1), sess, infoHash, index)

restoreBounds(s) ==
  LET s1 == send(s, "setAspectRatio", Undefined, 0)
  IN IF s1.window.bounds # Null THEN send(s1, "setBounds", Undefined, 0) ELSE s1

(* closePlayer without the reset of state.playing *)
closePlayerKeepsPlaying(s) ==
  LET s1 == IF isCasting(s) THEN castCmd(s, "stop") ELSE s
      s2 == IF s1.playing.location = "vlc" THEN send(s1, "vlcQuit", Undefined, 0) ELSE s1
      s3 == [s2 EXCEPT !.previousVolume = s2.playing.volume]
      result == s3.playing.result
      s4 == IF result \in {"success", "error"} THEN logPlayAttempt(s3, result, 0)
            ELSE IF result = Undefined THEN logPlayAttempt(s3, "abandoned", 0)
            ELSE s3
      s5 == [s4 EXCEPT !.window.title = "WebTorrent", !.server = Null]
      s6 == IF s5.window.isFullScreen THEN send(s5, "toggleFullScreen", Undefined, 0) ELSE s5
      s7 == restoreBounds(s6)
      s8 == send(s7, "wt-stop-server", Undefined, 0)
      s9 == send(s8, "onPlayerClose", Undefined, 0)
  IN [s9 EXCEPT !.location.url = "home", !.location.pending = 0,
                !.location.page = 0]

closePlayer(s) ==
  LET s1 == IF isCasting(s) THEN castCmd(s, "stop") ELSE s
      s2 == IF s1.playing.location = "vlc" THEN send(s1, "vlcQuit", Undefined, 0) ELSE s1
      s3 == [s2 EXCEPT !.previousVolume = s2.playing.volume]
      result == s3.playing.result
      s4 == IF result \in {"success", "error"} THEN logPlayAttempt(s3, result, 0)
            ELSE IF result = Undefined THEN logPlayAttempt(s3, "abandoned", 0)
            ELSE s3
      s5 == [s4 EXCEPT !.window.title = "WebTorrent",
                       !.playing = getDefaultPlayState,
                       !.server = Null]
      s6 == IF s5.window.isFullScreen THEN send(s5, "toggleFullScreen", Undefined, 0) ELSE s5
      s7 == restoreBounds(s6)
      s8 == send(s7, "wt-stop-server", Undefined, 0)
      s9 == send(s8, "onPlayerClose", Undefined, 0)
  IN (* cb(): the player page is left *)
     [s9 EXCEPT !.location.url = "home", !.location.pending = 0,
                !.location.page = 0]

onOpen(s, files) ==
  LET subtitles == SelectSeq(files, isSubtitle)
  IN IF s.location.url = "home" \/ Len(subtitles) = 0
     THEN Log(s, Ev("ui", "showCreateTorrent", Undefined, 0, Undefined))
     ELSE IF s.location.url = "player" THEN addSubtitles(s, subtitles, TRUE)
     ELSE s

----------------------------------------------------------------------------
(* changePlaybackRate: the rate is 4 * state.playing.playbackRate *)

(* The ladder with doubling from 1 upwards tried before the 0.25 steps *)
nextRateDoublingFirst(rate, direction) ==
  IF (direction > 0 /\ rate >= 4 /\ rate < 64) \/ (direction < 0 /\ rate > -64 /\ rate <= -4)
  THEN rate * 2
  ELSE IF direction > 0 /\ rate >= 1 /\ rate < 8 THEN rate + 1
  ELSE IF direction < 0 /\ rate > 1 /\ rate <= 8 THEN rate - 1
  ELSE IF direction < 0 /\ rate = 1 THEN -4
  ELSE IF direction > 0 /\ rate = -4 THEN 1
  ELSE IF (direction < 0 /\ rate > 4 /\ rate <= 64) \/ (direction > 0 /\ rate >= -64 /\ rate < -4)
  THEN rate \div 2
  ELSE rate

(* changePlaybackRate that steps from 0.25 down to 0 *)
nextRateThroughZero(rate, direction) ==
  IF direction > 0 /\ rate >= 1 /\ rate < 8 THEN rate + 1
  ELSE IF direction < 0 /\ rate >= 1 /\ rate <= 8 THEN rate - 1
  ELSE IF direction > 0 /\ rate = 0 THEN 1
  ELSE IF (direction > 0 /\ rate >= 4 /\ rate < 64) \/ (direction < 0 /\ rate > -64 /\ rate <= -4)
  THEN rate * 2
  ELSE IF (direction < 0 /\ rate > 4 /\ rate <= 64) \/ (direction > 0 /\ rate >= -64 /\ rate < -4)
  THEN rate \div 2
  ELSE rate

nextRate(rate, direction) ==
  IF direction > 0 /\ rate >= 1 /\ rate < 8 THEN rate + 1
  ELSE IF direction < 0 /\ rate > 1 /\ rate <= 8 THEN rate - 1
  ELSE IF direction < 0 /\ rate = 1 THEN -4
  ELSE IF direction > 0 /\ rate = -4 THEN 1
  ELSE IF (direction > 0 /\ rate >= 4 /\ rate < 64) \/ (direction < 0 /\ rate > -64 /\ rate <= -4)
  THEN rate * 2
  ELSE IF (direction < 0 /\ rate > 4 /\ rate <= 64) \/ (direction > 0 /\ rate >= -64 /\ rate < -4)
  THEN rate \div 2
  ELSE rate

(* accepts is what Cast.setRate(rate) returns when a remote target is active *)
(* Cast.setRate(rate) with its answer *)
castSetRate(s, accepts) ==
  Log(s, Ev("cast", "setRate", Undefined, 0, IF accepts THEN "accepted" ELSE "rejected"))

(* changePlaybackRate that keeps the rate a remote target rejected *)
changePlaybackRateIgnoresReject(s, direction, accepts) ==
  LET rate == nextRate(s.playing.playbackRate, direction)
      s1 == [s EXCEPT !.playing.playbackRate = rate]
  IN IF isCasting(s1) THEN castSetRate(s1, accepts) ELSE s1

changePlaybackRate(s, direction, accepts) ==
  LET rate == nextRate(s.playing.playbackRate, direction)
      s1 == [s EXCEPT !.playing.playbackRate = rate]
  IN IF isCasting(s1)
     THEN LET s2 == castSetRate(s1, accepts)
          IN IF ~accepts THEN [s2 EXCEPT !.playing.playbackRate = 4] ELSE s2
     ELSE s1

----------------------------------------------------------------------------
(* Transport commands, media events, external targets *)

playPause(s) ==
  IF s.location.url # "player" THEN s
  ELSE IF s.playing.isPaused THEN play(s) ELSE pause(s)

(* jumpToTime that sets the local request whatever the output location *)
jumpToTimeAlwaysLocal(s, time) ==
  LET s1 == IF isCasting(s) THEN castCmd(s, "seek") ELSE s
  IN [s1 EXCEPT !.playing.jumpToTime = time]

jumpToTime(s, time) ==
  IF isCasting(s) THEN castCmd(s, "seek")
  ELSE [s EXCEPT !.playing.jumpToTime = time]

(* Math.max(0, Math.min(1, volume)), in tenths *)
clampVolume(volume) == IF volume < 0 THEN 0 ELSE IF volume > 10 THEN 10 ELSE volume

setVolume(s, volume) ==
  IF isCasting(s) THEN castCmd(s, "setVolume")
  ELSE [s EXCEPT !.playing.setVolume = clampVolume(volume)]

changeVolume(s, delta) == setVolume(s, s.playing.volume + delta)

mediaSuccess(s) == [s EXCEPT !.playing.result = "success"]

mediaStalled(s) == [s EXCEPT !.playing.isStalled = TRUE]

(* mediaError that keeps the result of the session *)
mediaErrorKeepsResult(s) ==
  IF s.location.url = "player"
  THEN send([s EXCEPT !.playing.location = "error"], "checkForVLC", Undefined, s.location.page)
  ELSE s

mediaError(s) ==
  IF s.location.url = "player"
  THEN send([s EXCEPT !.playing.result = "error", !.playing.location = "error"],
            "checkForVLC", Undefined, s.location.page)
  ELSE s

mediaTimeUpdate(s) == [s EXCEPT !.playing.isStalled = FALSE]

(* this.state.server.localURL throws when state.server is null *)
vlcPlay(s) ==
  IF s.server = Null
  THEN Log(s, Ev("throw", "TypeError", Undefined, s.location.page, Undefined))
  ELSE [send(s, "vlcPlay", Undefined, s.location.page) EXCEPT !.playing.location = "vlc"]

(* vlcNotFound writes state.modal only *)
vlcNotFound(s) == s

(* Cast.selectDevice: the remote target of the given kind takes over the output *)
selectCastDevice(s, kind) ==
  [Log(s, Ev("cast", "open", Undefined, s.location.page, Undefined))
     EXCEPT !.playing.location = kind]

----------------------------------------------------------------------------
(* torrentDone *)

showDoneNotification(s, key) ==
  playSound(Log(s, Ev("notify", "Download Complete", key, 0, Undefined)), "DONE")

(* torrentDone that notifies whatever the number of bytes received *)
torrentDoneAlwaysNotifies(s, torrentKey, bytesReceived) ==
  LET tix == getTorrentSummary(s, torrentKey)
      s1 == [s EXCEPT !.torrents[tix].status = "seeding"]
      s2 == IF ~s1.window.isFocused THEN [s1 EXCEPT !.dock.badge = @ + 1] ELSE s1
  IN send(showDoneNotification(s2, torrentKey), "downloadFinished", torrentKey, 0)

torrentDone(s, torrentKey, bytesReceived) ==
  LET tix == getTorrentSummary(s, torrentKey)
      s1 == [s EXCEPT !.torrents[tix].status = "seeding"]
      s2 == IF ~s1.window.isFocused THEN [s1 EXCEPT !.dock.badge = @ + 1] ELSE s1
  IN IF bytesReceived > 0
     THEN send(showDoneNotification(s2, torrentKey), "downloadFinished", torrentKey, 0)
     ELSE s1

onFocus(s) == [s EXCEPT !.window.isFocused = TRUE, !.dock.badge = 0]

onBlur(s) == [s EXCEPT !.window.isFocused = FALSE]

----------------------------------------------------------------------------
(* The playback session: actions *)

Sessions == DOMAIN sessions

(* What a summary restored from the saved state can look like *)
FilesVideo ==
  << [name |-> "a.mp4", kind |-> "video", length |-> 2, currentTime |-> 0,
      duration |-> 0, audioInfo |-> FALSE],
     [name |-> "b.mkv", kind |-> "video", length |-> 3, currentTime |-> 0,
      duration |-> 0, audioInfo |-> FALSE],
     [name |-> "a.srt", kind |-> "other", length |-> 1, currentTime |-> 0,
      duration |-> 0, audioInfo |-> FALSE] >>

FilesAudio ==
  << [name |-> "r.txt", kind |-> "other", length |-> 1, currentTime |-> 0,
      duration |-> 0, audioInfo |-> FALSE],
     [name |-> "s.mp3", kind |-> "audio", length |-> 2, currentTime |-> 0,
      duration |-> 0, audioInfo |-> FALSE] >>

FilesOther ==
  << [name |-> "r.txt", kind |-> "other", length |-> 1, currentTime |-> 0,
      duration |-> 0, audioInfo |-> FALSE] >>

NoProgress == [present |-> FALSE, files |-> <<>>]

Summary(key, status, files, default) ==
  [torrentKey |-> key, infoHash |-> key, status |-> status, playStatus |-> "absent",
   files |-> files, defaultPlayFileIndex |-> default, progress |-> NoProgress,
   torrentFileName |-> Undefined, posterFileName |-> Undefined]

InitCommon ==
  /\ playing = getDefaultPlayState
  /\ server = Null
  /\ errors = <<>>
  /\ location = [url |-> "home", pending |-> 0, page |-> 0]
  /\ sessions = <<>>
  /\ ingests = <<>>
  /\ engine = [ready |-> [h \in Hashes |-> 0], server |-> [h \in Hashes |-> 0]]
  /\ trace = <<>>
  /\ tally = <<>>
  /\ window = [title |-> "WebTorrent", isFocused |-> TRUE, isFullScreen |-> FALSE,
               bounds |-> Null]
  /\ dock = [badge |-> 0]
  /\ previousVolume = 10

SysDefault ==
  [language |-> "en-US", detect |-> [f \in {"a.srt", "b.srt", "c.vtt"} |-> "english"]]

Init ==
  /\ InitCommon
  /\ sys = SysDefault
  /\ \E st1 \in {"paused", "downloading"}, f2 \in {FilesAudio, FilesOther} :
       torrents = << Summary("k1", st1, FilesVideo, pickFileToPlay(FilesVideo)),
                     Summary("k2", "seeding", f2, 0) >>

(* dispatch('play', infoHash, index) *)
Play(infoHash, index) ==
  /\ Len(sessions) < MaxOpens
  /\ location.url = "home"
  /\ location.pending = 0
  /\ getTorrentSummary(St, infoHash) # 0
  /\ index \in {0} \cup DOMAIN torrents[getTorrentSummary(St, infoHash)].files
  /\ Becomes(playFile(
       Enter(St, "play", infoHash, Len(sessions) + 1,
             torrents[getTorrentSummary(St, infoHash)].status),
       infoHash, index))

(* The timer of session sess fires *)
Timeout(sess) ==
  /\ sessions[sess].timer = "armed"
  /\ Becomes(playbackTimedOut(
       Enter(St, "timeout", sessions[sess].item, sess, Undefined), sess))

(* emit(channel): the listeners registered when the event arrives run in  *)
(* the order of their registration                                         *)
RECURSIVE readyListeners(_, _, _)
readyListeners(s, item, sess) ==
  IF sess > Len(sessions) THEN s
  ELSE IF sessions[sess].phase = "waitReady" /\ sessions[sess].item = item
       THEN readyListeners(openPlayerFromActiveTorrent(s, sess), item, sess + 1)
       ELSE readyListeners(s, item, sess + 1)

RECURSIVE serverListeners(_, _, _)
serverListeners(s, item, sess) ==
  IF sess > Len(sessions) THEN s
  ELSE IF sessions[sess].phase = "waitServer" /\ sessions[sess].item = item
       THEN serverListeners(serverReady(s, sess), item, sess + 1)
       ELSE serverListeners(s, item, sess + 1)

(* ipc event 'wt-ready-<infoHash>': every listener registered with once() runs *)
WtReady(infoHash) ==
  /\ engine.ready[infoHash] > 0
  /\ Becomes(readyListeners(
       Enter([St EXCEPT !.engine.ready[infoHash] = @ - 1],
             "wt-ready", infoHash, 0, Undefined),
       infoHash, 1))

torrentServerRunning(s, serverInfo) == [s EXCEPT !.server = serverInfo]

(* ipc events 'wt-server-running' and 'wt-server-<infoHash>': the engine   *)
(* sends the two together and the renderer handles them back to back       *)
WtServer(infoHash) ==
  /\ engine.server[infoHash] > 0
  /\ Becomes(serverListeners(
       torrentServerRunning(
         Enter([St EXCEPT !.engine.server[infoHash] = @ - 1],
               "wt-server", infoHash, 0, Undefined),
         infoHash),
       infoHash, 1))

(* Session sess waits for the engine or for the content server *)
Waiting(sess) == sessions[sess].phase \in {"waitReady", "waitServer"}

(* The state of the session machine *)
Machine ==
  IF location.url = "player" THEN "Active"
  ELSE IF location.page = 0 THEN "Idle"
  ELSE IF ~Waiting(location.page) THEN "Idle"
  ELSE IF sessions[location.page].timer = "fired" THEN "TimedOut"
  ELSE IF sessions[location.page].phase = "waitReady" THEN "WaitingForEngineReady"
  ELSE "WaitingForServer"

(* dispatch('back'): state.location.back() unloads the player page, which  *)
(* is loaded (Active) or being loaded (WaitingFor..., TimedOut)            *)
Back ==
  /\ Machine # "Idle"
  /\ Becomes(closePlayer(Enter(St, "back", Undefined, 0, Machine)))

Next ==
  \/ \E h \in Hashes, index \in 0..1 : Play(h, index)
  \/ \E sess \in Sessions : Timeout(sess)
  \/ \E h \in Hashes : WtReady(h)
  \/ \E h \in Hashes : WtServer(h)
  \/ Back

Spec == Init /\ [][Next]_vars

----------------------------------------------------------------------------
(* Reading trace and tally *)

Tally(kind, name, item, sess) ==
  IF <<kind, name, item, sess>> \in DOMAIN tally
  THEN tally[<<kind, name, item, sess>>] ELSE 0

InTrace(kind, name, item, sess) ==
  Cardinality({i \in DOMAIN trace :
                 /\ trace[i].kind = kind
                 /\ trace[i].name = name
                 /\ trace[i].item = item
                 /\ trace[i].sess = sess})

Named(kind, name) ==
  Cardinality({i \in DOMAIN trace : trace[i].kind = kind /\ trace[i].name = name})

OfKind(kind) == Cardinality({i \in DOMAIN trace : trace[i].kind = kind})

Handler == IF trace = <<>> THEN "none" ELSE trace[1].name

TimeoutMsg == "Playback timed out. Try again."

----------------------------------------------------------------------------
(* The playback session: properties *)

(* The server-ready event reached session sess after its timeout had fired *)
LateServerReady(sess) ==
  sessions[sess].phase = "done" /\ sessions[sess].timer = "fired"

(* C1: a session whose server-ready event arrives after its timeout fired  *)
(* never starts playback (no success signalled, no onPlayerOpen sent by    *)
(* it), sends wt-stop-server, leaves the machine Idle and has reported     *)
(* exactly one 'Playback timed out' error.                                 *)
C1_TimeoutRace ==
  \A sess \in Sessions :
    LateServerReady(sess) =>
      /\ Tally("cb", "none", sessions[sess].item, sess) = 0
      /\ Tally("ipc", "onPlayerOpen", Undefined, sess) = 0
      /\ Tally("ipc", "wt-stop-server", Undefined, sess) = 1
      /\ Tally("cb", TimeoutMsg, sessions[sess].item, sess) = 1
      /\ (Handler = "wt-server" /\ location.page = sess => Machine = "Idle")

(* C6: an open of an item that is paused sends wt-start-torrenting for it  *)
(* and no wt-start-server; wt-start-server then goes out only in the       *)
(* handler of the item's wt-ready event, after the session's resume        *)
(* command. An open of an item that is not paused sends no                 *)
(* wt-start-torrenting and sends wt-start-server at once.                  *)
C6_ResumeBeforeServer ==
  /\ (Handler = "play" /\ Named("cb", "UnplayableError") = 0) =>
       IF trace[1].arg = "paused"
       THEN /\ InTrace("ipc", "wt-start-torrenting", trace[1].item, trace[1].sess) = 1
            /\ Named("ipc", "wt-start-server") = 0
       ELSE /\ Named("ipc", "wt-start-torrenting") = 0
            /\ InTrace("ipc", "wt-start-server", trace[1].item, trace[1].sess) = 1
  /\ \A i \in DOMAIN trace :
       (trace[i].kind = "ipc" /\ trace[i].name = "wt-start-server" /\ Handler # "play") =>
         /\ Handler = "wt-ready"
         /\ trace[1].item = trace[i].item
         /\ Tally("ipc", "wt-start-torrenting", trace[i].item, trace[i].sess) >= 1

C6_Witness ==
  /\ Handler = "wt-ready"
  /\ Named("ipc", "wt-start-server") = 1

EngineCommands ==
  {"wt-start-torrenting", "wt-stop-torrenting", "wt-start-server", "wt-stop-server",
   "wt-get-audio-metadata", "wt-save-torrent-file", "wt-generate-torrent-poster"}

(* The step is an open that failed with UnplayableError *)
UnplayableOpen ==
  /\ trace'[1].name = "play"
  /\ \E i \in DOMAIN trace' : trace'[i].kind = "cb" /\ trace'[i].name = "UnplayableError"

(* C9: an open that fails with UnplayableError reports the error and does  *)
(* nothing else: PlayingState is unchanged, no play-status tag is set, no  *)
(* timer is armed, no sound but that of the error report is played, no     *)
(* command goes to the engine, and the machine is Idle.                    *)
C9_UnplayableNoSideEffect ==
  [][UnplayableOpen =>
       /\ playing' = playing
       /\ torrents' = torrents
       /\ sessions'[Len(sessions')].timer = "none"
       /\ \A i \in DOMAIN trace' :
            /\ trace'[i].kind = "sound" => trace'[i].name = "ERROR"
            /\ trace'[i].kind = "ipc" => trace'[i].name \notin EngineCommands
       /\ errors' = Append(errors, "UnplayableError")
       /\ Machine' = "Idle"]_vars

(* C10: when closePlayer has run, state.playing is the default play state  *)
(* (no infoHash, no file index, no subtitle tracks, no selected subtitle), *)
(* state.server is null and closePlayer has sent wt-stop-server once,      *)
(* whether the machine was Active, WaitingForServer or TimedOut.           *)
C10_CloseResets ==
  Handler = "back" =>
    /\ playing = getDefaultPlayState
    /\ playing.infoHash = Null
    /\ playing.fileIndex = 0
    /\ playing.subtitles.tracks = <<>>
    /\ playing.subtitles.selectedIndex = 0
    /\ server = Null
    /\ Named("ipc", "wt-stop-server") = 1

C10_Witness ==
  /\ Handler = "back"
  /\ trace[1].arg = "TimedOut"
  /\ Tally("call", "back", Undefined, 0) = 2

----------------------------------------------------------------------------
(* The rate ladder: specification and properties *)

InitRate ==
  /\ InitCommon
  /\ sys = SysDefault
  /\ torrents = << Summary("k1", "downloading", FilesVideo, pickFileToPlay(FilesVideo)) >>

(* dispatch('changePlaybackRate', direction) *)
ChangePlaybackRate(direction) ==
  /\ Tally("call", "changePlaybackRate", Undefined, 0) < MaxRateCmds
  /\ \E accepts \in BOOLEAN :
       Becomes(changePlaybackRate(
         Enter(St, "changePlaybackRate", Undefined, 0, direction), direction, accepts))

NextRate == \E direction \in {-1, 1} : ChangePlaybackRate(direction)

SpecRate == InitRate /\ [][NextRate]_vars

(* The step is a rate command in the given direction, no remote target active *)
RateStep(direction) ==
  /\ trace'[1].name = "changePlaybackRate"
  /\ trace'[1].arg = direction
  /\ ~isCasting(St)

(* The step takes the rate from 4 * from to 4 * to *)
Rung(from, to) == playing.playbackRate = from => playing'.playbackRate = to

----------------------------------------------------------------------------
(* Completion events: specification and properties *)

InitDone ==
  /\ InitCommon
  /\ sys = SysDefault
  /\ torrents = << Summary("k1", "downloading", FilesVideo, pickFileToPlay(FilesVideo)),
                   Summary("k2", "downloading", FilesAudio, pickFileToPlay(FilesAudio)) >>

(* ipc event 'wt-done' *)
WtDone(torrentKey, bytesReceived) ==
  /\ Tally("call", "wt-done", "k1", 0) + Tally("call", "wt-done", "k2", 0) < MaxDone
  /\ getTorrentSummary(St, torrentKey) # 0
  /\ Becomes(torrentDone(Enter(St, "wt-done", torrentKey, 0, bytesReceived),
                         torrentKey, bytesReceived))

FocusChanges == Tally("call", "focus", Undefined, 0) + Tally("call", "blur", Undefined, 0)

OnFocus ==
  /\ FocusChanges < MaxFocus
  /\ ~window.isFocused
  /\ Becomes(onFocus(Enter(St, "focus", Undefined, 0, Undefined)))

OnBlur ==
  /\ FocusChanges < MaxFocus
  /\ window.isFocused
  /\ Becomes(onBlur(Enter(St, "blur", Undefined, 0, Undefined)))

NextDone ==
  \/ \E key \in Hashes, bytesReceived \in 0..2 : WtDone(key, bytesReceived)
  \/ OnFocus
  \/ OnBlur

SpecDone == InitDone /\ [][NextDone]_vars

(* C5: a done event that reports no received byte produces no 'Download   *)
(* Complete' notification, no DONE sound and no downloadFinished command;  *)
(* one that reports at least one byte produces exactly one of each; both   *)
(* leave the item seeding.                                                 *)
C5_DoneNotification ==
  Handler = "wt-done" =>
    /\ torrents[getTorrentSummary(St, trace[1].item)].status = "seeding"
    /\ IF trace[1].arg = 0
       THEN /\ OfKind("notify") = 0
            /\ Named("sound", "DONE") = 0
            /\ Named("ipc", "downloadFinished") = 0
       ELSE /\ InTrace("notify", "Download Complete", trace[1].item, 0) = 1
            /\ OfKind("notify") = 1
            /\ Named("sound", "DONE") = 1
            /\ InTrace("ipc", "downloadFinished", trace[1].item, 0) = 1
            /\ Named("ipc", "downloadFinished") = 1

(* A done event without received bytes for an item, after one with bytes *)
C5_Witness ==
  /\ Handler = "wt-done"
  /\ trace[1].arg = 0
  /\ trace[1].item = "k1"
  /\ Tally("notify", "Download Complete", "k2", 0) = 1
  /\ Tally("notify", "Download Complete", "k1", 0) = 0

----------------------------------------------------------------------------
(* Subtitle ingestion: specification and properties *)

Batches == {<<"a.srt">>, <<"b.srt">>, <<"a.srt", "b.srt">>, <<"b.srt", "a.srt">>,
            <<"a.srt", "a.srt">>}

(* Progress of the files of FilesVideo; the subtitle file is complete or not *)
ProgressVideo(srtPresent) ==
  [present |-> TRUE,
   files |-> << [numPieces |-> 2, numPiecesPresent |-> 1],
                [numPieces |-> 2, numPiecesPresent |-> 2],
                [numPieces |-> 1, numPiecesPresent |-> srtPresent] >>]

InitSubs ==
  /\ InitCommon
  /\ \E language \in {"en-US", "de-DE"}, da \in {"english", "none"},
        db \in {"english", "german"} :
       sys = [language |-> language,
              detect |-> [f \in {"a.srt", "b.srt", "c.vtt"} |->
                            IF f = "a.srt" THEN da ELSE db]]
  /\ \E srtPresent \in 0..1 :
       torrents = << [Summary("k1", "downloading", FilesVideo, pickFileToPlay(FilesVideo))
                        EXCEPT !.progress = ProgressVideo(srtPresent)] >>

PlayVideo ==
  /\ Len(sessions) < MaxSubOpens
  /\ Play("k1", 0)

(* The user drops files on the window *)
OnOpen(files) ==
  /\ Tally("call", "onOpen", Undefined, 0) < MaxIngests
  /\ Becomes(onOpen(Enter(St, "onOpen", Undefined, 0, Undefined), files))

(* The read of file i of ingest c ends, with data or with an error *)
SubtitleRead(c, i, ok) ==
  /\ ingests[c].results[i].state = "pending"
  /\ Becomes(subtitleRead(
       Enter(St, IF ok THEN "subtitleData" ELSE "subtitleError", ingests[c].files[i], c, i),
       c, i, ok))

NextSubs ==
  \/ PlayVideo
  \/ WtServer("k1")
  \/ Back
  \/ \E files \in Batches : OnOpen(files)
  \/ \E c \in DOMAIN ingests : \E i \in DOMAIN ingests[c].files, ok \in BOOLEAN :
       SubtitleRead(c, i, ok)

SpecSubs == InitSubs /\ [][NextSubs]_vars

Tracks == playing.subtitles.tracks

(* C3: no two tracks of the track list come from the same file *)
C3_NoDuplicatePath ==
  \A i, j \in DOMAIN Tracks : Tracks[i].filePath = Tracks[j].filePath => i = j

(* Ingest c has run its callback *)
Merged(c) == ingests[c].pending = 0

(* A merged batch that repeats a file, and a merged batch that offers a *)
(* file the list already had                                            *)
C3_Witness ==
  /\ Len(Tracks) = 2
  /\ \E c \in DOMAIN ingests : Merged(c) /\ ingests[c].files = <<"a.srt", "a.srt">>
  /\ \E c \in DOMAIN ingests : Merged(c) /\ ingests[c].files = <<"b.srt", "a.srt">>

(* The step is the read that completes ingest c *)
Completes(c) ==
  /\ trace'[1].name = "subtitleData"
  /\ trace'[1].sess = c
  /\ ingests[c].pending = 1

(* The tracks the step appended that qualify for selection *)
Qualifying(c) ==
  {p \in (Len(Tracks) + 1)..Len(playing'.subtitles.tracks) :
     \/ playing'.subtitles.tracks[p].filePath = ingests[c].files[1]
     \/ isSystemLanguage(playing'.subtitles.tracks[p].language)}

Rank(i) == Cardinality({j \in 1..i : Tracks[j].language = Tracks[i].language})

(* C7: no two tracks have the same label; the Nth track of a language in *)
(* list order is labelled with the language alone for N = 1 and with the *)
(* language and N for N >= 2                                             *)
C7_UniqueLabels ==
  /\ \A i, j \in DOMAIN Tracks : Tracks[i].label = Tracks[j].label => i = j
  /\ \A i \in DOMAIN Tracks :
       Tracks[i].label = IF Rank(i) = 1 THEN <<Tracks[i].language>>
                         ELSE <<Tracks[i].language, Rank(i)>>

(* Two tracks of one language, merged by two ingests *)
C7_Witness ==
  /\ Len(Tracks) = 2
  /\ Tracks[1].language = Tracks[2].language
  /\ Tracks[2].label = <<Tracks[1].language, 2>>
  /\ Cardinality({c \in DOMAIN ingests : Merged(c)}) = 2

(* The reads of ingest c that ended with an error, each reported by onError *)
FailedReads(c) ==
  Tally("call", "subtitleError", "a.srt", c) + Tally("call", "subtitleError", "b.srt", c)

(* C8: an ingest with a failed read appends no track and reports exactly *)
(* one error, however many of its reads fail                             *)
C8_FailFast ==
  /\ Handler = "subtitleError" => Named("sound", "ERROR") = 1 /\ Len(errors) > 0
  /\ \A c \in DOMAIN ingests :
       FailedReads(c) > 0 => ~Merged(c) /\ FailedReads(c) = 1

----------------------------------------------------------------------------
(* The timer of a session: properties *)

(* The step hands the server-ready event to session sess, which is the    *)
(* session being opened and whose timer is pending                         *)
ReadyInTime(sess) ==
  /\ sess \in Sessions
  /\ location.page = sess
  /\ sessions[sess].phase = "waitServer"
  /\ sessions[sess].timer = "armed"
  /\ sessions'[sess].phase = "done"

(* C11: when the server-ready event reaches a session before its timeout   *)
(* fires, the open completion is signalled once without error, the         *)
(* play-status tag of the item is cleared and the machine is Active; and   *)
(* no session whose timer was cancelled ever has a timeout logged or a     *)
(* timeout error reported.                                                 *)
C11_TimerCancelled ==
  [][/\ \A sess \in 1..MaxOpens :
          ReadyInTime(sess) =>
            /\ Cardinality({i \in DOMAIN trace' :
                              trace'[i].kind = "cb" /\ trace'[i].sess = sess
                                /\ trace'[i].name = "none"}) = 1
            /\ torrents'[getTorrentSummary(St, sessions[sess].item)].playStatus = "absent"
            /\ location'.url = "player"
     /\ \A sess \in DOMAIN sessions' :
          sessions'[sess].timer = "cleared" =>
            /\ ~(trace'[1].name = "timeout" /\ trace'[1].sess = sess)
            /\ \A i \in DOMAIN trace' :
                 trace'[i].sess = sess =>
                   ~(trace'[i].kind = "telemetry" /\ trace'[i].name = "timeout")
                     /\ ~(trace'[i].kind = "cb" /\ trace'[i].name = TimeoutMsg)]_vars

(* C14 as stated: no timer is pending while the machine waits for the      *)
(* engine-ready event of a paused item, and a timeout fires only for a     *)
(* session that has got past that wait.                                    *)
C14_TimerArmedOnServerWait ==
  /\ Machine = "WaitingForEngineReady" => sessions[location.page].timer # "armed"
  /\ Handler = "timeout" => sessions[trace[1].sess].phase # "waitReady"

(* C14 amended: the timer is started when the open is accepted; it is      *)
(* pending while the machine waits for the engine-ready event of a paused  *)
(* item as well as while it waits for the content server, and a session    *)
(* that waits has its timer pending or fired.                              *)
C14_TimerArmedOnOpen ==
  /\ Machine \in {"WaitingForEngineReady", "WaitingForServer"} =>
       sessions[location.page].timer = "armed"
  /\ \A sess \in Sessions : Waiting(sess) => sessions[sess].timer \in {"armed", "fired"}

(* The timeout has fired for a session that waits for the engine-ready event *)
C14_Witness ==
  /\ Handler = "timeout"
  /\ sessions[trace[1].sess].phase = "waitReady"
  /\ Machine = "TimedOut"

----------------------------------------------------------------------------
(* Transport commands, media events and external targets: specification *)

TransportNames ==
  {"playPause", "playbackJump", "skip", "changeVolume", "setVolume", "changePlaybackRate"}

MediaNames == {"mediaSuccess", "mediaStalled", "mediaError", "mediaTimeUpdate",
               "vlcPlay", "vlcNotFound", "selectCastDevice"}

RECURSIVE SumTally(_)
SumTally(K) ==
  IF K = {} THEN 0
  ELSE LET k == CHOOSE x \in K : TRUE IN tally[k] + SumTally(K \ {k})

(* The commands and media events handled so far *)
Cmds ==
  SumTally({k \in DOMAIN tally : k[1] = "call" /\ k[2] \in TransportNames \cup MediaNames})

PlayOnce(infoHash, index) ==
  /\ Len(sessions) < MaxMediaOpens
  /\ Play(infoHash, index)

(* dispatch('playPause') *)
PlayPause ==
  /\ Cmds < MaxCmds
  /\ Becomes(playPause(Enter(St, "playPause", Undefined, location.page, Undefined)))

(* dispatch('playbackJump', time) *)
PlaybackJump(time) ==
  /\ Cmds < MaxCmds
  /\ Becomes(jumpToTime(Enter(St, "playbackJump", Undefined, location.page, time), time))

(* dispatch('skip', direction): the player view keeps state.playing.currentTime; *)
(* the entry carries the time the handler computes                               *)
Skip(direction, currentTime) ==
  /\ Cmds < MaxCmds
  /\ Becomes(jumpToTime(
       Enter(St, "skip", Undefined, location.page, currentTime + direction * 10),
       currentTime + direction * 10))

(* dispatch('changeVolume', delta), delta in tenths *)
ChangeVolume(delta) ==
  /\ Cmds < MaxCmds
  /\ Becomes(changeVolume(Enter(St, "changeVolume", Undefined, location.page, delta), delta))

(* dispatch('setVolume', volume), volume in tenths *)
SetVolume(volume) ==
  /\ Cmds < MaxCmds
  /\ Becomes(setVolume(Enter(St, "setVolume", Undefined, location.page, volume), volume))

ChangeRate(direction) ==
  /\ Cmds < MaxCmds
  /\ ChangePlaybackRate(direction)

(* The media element of the player page reports: dispatch('mediaSuccess'), ... *)
MediaSuccess ==
  /\ Cmds < MaxCmds
  /\ location.url = "player"
  /\ Becomes(mediaSuccess(Enter(St, "mediaSuccess", Undefined, location.page, Undefined)))

MediaStalled ==
  /\ Cmds < MaxCmds
  /\ location.url = "player"
  /\ Becomes(mediaStalled(Enter(St, "mediaStalled", Undefined, location.page, Undefined)))

MediaError ==
  /\ Cmds < MaxCmds
  /\ location.url = "player"
  /\ Becomes(mediaError(Enter(St, "mediaError", Undefined, location.page, Undefined)))

MediaTimeUpdate ==
  /\ Cmds < MaxCmds
  /\ location.url = "player"
  /\ Becomes(mediaTimeUpdate(Enter(St, "mediaTimeUpdate", Undefined, location.page, Undefined)))

(* dispatch('vlcPlay'), dispatch('vlcNotFound'): from the player page *)
VlcPlay ==
  /\ Cmds < MaxCmds
  /\ location.url = "player"
  /\ Becomes(vlcPlay(Enter(St, "vlcPlay", Undefined, location.page, Undefined)))

VlcNotFound ==
  /\ Cmds < MaxCmds
  /\ location.url = "player"
  /\ Becomes(vlcNotFound(Enter(St, "vlcNotFound", Undefined, location.page, Undefined)))

(* dispatch('selectCastDevice', index): from the player page, output local *)
SelectCastDevice(kind) ==
  /\ Cmds < MaxCmds
  /\ location.url = "player"
  /\ playing.location = "local"
  /\ Becomes(selectCastDevice(
       Enter(St, "selectCastDevice", Undefined, location.page, kind), kind))

NextMedia ==
  \/ \E h \in Hashes, index \in 0..1 : PlayOnce(h, index)
  \/ \E sess \in Sessions : Timeout(sess)
  \/ \E h \in Hashes : WtReady(h)
  \/ \E h \in Hashes : WtServer(h)
  \/ Back
  \/ PlayPause
  \/ \E time \in {30} : PlaybackJump(time)
  \/ \E direction \in {-1, 1}, currentTime \in {20} : Skip(direction, currentTime)
  \/ \E delta \in {-1, 1} : ChangeVolume(delta)
  \/ \E volume \in {5, 12} : SetVolume(volume)
  \/ \E direction \in {-1, 1} : ChangeRate(direction)
  \/ MediaSuccess
  \/ MediaStalled
  \/ MediaError
  \/ MediaTimeUpdate
  \/ VlcPlay
  \/ VlcNotFound
  \/ \E kind \in {"chromecast", "airplay", "dlna"} : SelectCastDevice(kind)

SpecMedia == Init /\ [][NextMedia]_vars

----------------------------------------------------------------------------
(* Transport commands, media events and external targets: properties *)

(* The entries of the given kind that the step has produced *)
Produced(kind) == {i \in DOMAIN trace' : trace'[i].kind = kind}

ProducedNamed(kind, name) == {i \in Produced(kind) : trace'[i].name = name}

(* The step closes the page of session p *)
Closes(p) == trace'[1].name = "back" /\ location.page = p

(* C12: the close of a session in which the external player or a remote   *)
(* target was engaged sends vlcQuit, respectively the stop command of the  *)
(* remote target, whatever media events came in between.                   *)
C12_CloseStopsExternalTarget ==
  [][\A p \in Sessions :
       Closes(p) =>
         /\ Tally("ipc", "vlcPlay", Undefined, p) > 0 =>
              ProducedNamed("ipc", "vlcQuit") # {}
         /\ Tally("cast", "open", Undefined, p) > 0 =>
              ProducedNamed("cast", "stop") # {}]_vars

(* The step is a transport command *)
Transport == trace'[1].kind = "call" /\ trace'[1].name \in TransportNames

(* C13: a transport command issued while the machine is not Active changes *)
(* no field of state.playing and sends nothing, neither to a remote target *)
(* nor over ipc.                                                           *)
C13_TransportOnlyWhenActive ==
  [][Transport /\ Machine # "Active" =>
       /\ playing' = playing
       /\ Produced("ipc") = {}
       /\ Produced("cast") = {}]_vars

(* The step is the named command *)
Cmd(name) == trace'[1].kind = "call" /\ trace'[1].name = name

(* The request field a seek or volume command writes for the local output *)
LocalRequest(pl) == <<pl.jumpToTime, pl.setVolume>>

(* C15 as stated: a transport command with a remote target active is       *)
(* forwarded to the target and neither changes state.playing nor sends     *)
(* anything over ipc; with no remote target active it sends nothing to a   *)
(* remote target.                                                          *)
C15_RoutingAsStated ==
  [][Transport /\ location.url = "player" =>
       IF isCasting(St)
       THEN /\ Cardinality(Produced("cast")) = 1
            /\ playing' = playing
            /\ Produced("ipc") = {}
       ELSE Produced("cast") = {}]_vars

(* C15 amended: with a remote target active every transport command is    *)
(* forwarded to the target, with none active nothing is sent to a target.  *)
(* Seek and volume commands write their request to state.playing only when *)
(* no remote target is active. Play and pause flip isPaused and send        *)
(* onPlayerPlay or onPlayerPause, and a rate command writes playbackRate,   *)
(* whether a remote target is active or not.                               *)
C15_Routing ==
  [][Transport /\ location.url = "player" =>
       /\ IF isCasting(St)
          THEN Cardinality(Produced("cast")) = 1
          ELSE Produced("cast") = {}
       /\ Cmd("playbackJump") \/ Cmd("skip") =>
            /\ Produced("ipc") = {}
            /\ IF isCasting(St) THEN playing' = playing /\ ProducedNamed("cast", "seek") # {}
               ELSE playing' = [playing EXCEPT !.jumpToTime = trace'[1].arg]
       /\ Cmd("setVolume") =>
            /\ Produced("ipc") = {}
            /\ IF isCasting(St)
               THEN playing' = playing /\ ProducedNamed("cast", "setVolume") # {}
               ELSE playing' = [playing EXCEPT !.setVolume = clampVolume(trace'[1].arg)]
       /\ Cmd("changeVolume") =>
            /\ Produced("ipc") = {}
            /\ IF isCasting(St)
               THEN playing' = playing /\ ProducedNamed("cast", "setVolume") # {}
               ELSE playing' = [playing EXCEPT
                                  !.setVolume = clampVolume(playing.volume + trace'[1].arg)]
       /\ Cmd("playPause") =>
            /\ playing' = [playing EXCEPT !.isPaused = ~playing.isPaused]
            /\ Cardinality(Produced("ipc")) = 1
            /\ ProducedNamed("ipc", IF playing.isPaused THEN "onPlayerPlay"
                                    ELSE "onPlayerPause") # {}
            /\ isCasting(St) =>
                 ProducedNamed("cast", IF playing.isPaused THEN "play" ELSE "pause") # {}
       /\ Cmd("changePlaybackRate") =>
            /\ Produced("ipc") = {}
            /\ \E rate \in {4, nextRate(playing.playbackRate, trace'[1].arg)} :
                 playing' = [playing EXCEPT !.playbackRate = rate]
            /\ isCasting(St) => ProducedNamed("cast", "setRate") # {}]_vars

(* A seek has been forwarded to a remote target, a pause was handled there too *)
C15_Witness ==
  /\ Handler = "playbackJump"
  /\ isCasting(St)
  /\ Named("cast", "seek") = 1
  /\ playing.jumpToTime = -1
  /\ Tally("cast", "pause", Undefined, 0) = 1

(* C16: once the external player is engaged, play, pause, seek and volume *)
(* commands write neither state.playing.jumpToTime nor                     *)
(* state.playing.setVolume and send nothing over ipc.                      *)
C16_NoLocalCommandsWithVlc ==
  [][Transport /\ ~Cmd("changePlaybackRate") /\ playing.location = "vlc" =>
       /\ LocalRequest(playing') = LocalRequest(playing)
       /\ Produced("ipc") = {}]_vars

(* The outcome closePlayer logs for a result *)
Outcome(result) == IF result = Undefined THEN "abandoned" ELSE result

(* C17 as stated: the close logs exactly one outcome: 'success' if a       *)
(* first-frame signal was received during the session, 'error' if a        *)
(* playback error occurred, 'abandoned' if neither.                        *)
C17_OutcomeAsStated ==
  [][\A p \in Sessions :
       Closes(p) =>
         /\ Cardinality(Produced("telemetry")) = 1
         /\ Tally("call", "mediaSuccess", Undefined, p) > 0 =>
              ProducedNamed("telemetry", "success") # {}
         /\ Tally("call", "mediaError", Undefined, p) > 0 =>
              ProducedNamed("telemetry", "error") # {}
         /\ Tally("call", "mediaSuccess", Undefined, p) = 0
              /\ Tally("call", "mediaError", Undefined, p) = 0 =>
              ProducedNamed("telemetry", "abandoned") # {}]_vars

(* C17 amended: the close logs exactly one outcome, the one of the most    *)
(* recent first-frame or playback-error signal of the session, 'abandoned' *)
(* if there was none. state.playing.result holds that signal: it is        *)
(* undefined at the start, a first-frame signal makes it 'success', a      *)
(* playback error makes it 'error', the close logs it and resets it, and   *)
(* no other step changes it.                                               *)
C17_Outcome ==
  /\ playing.result = Undefined
  /\ [][/\ Cmd("mediaSuccess") => playing'.result = "success"
        /\ Cmd("mediaError") => playing'.result = "error"
        /\ Cmd("back") =>
             /\ Cardinality(Produced("telemetry")) = 1
             /\ ProducedNamed("telemetry", Outcome(playing.result)) # {}
             /\ playing'.result = Undefined
        /\ ~Cmd("mediaSuccess") /\ ~Cmd("mediaError") /\ ~Cmd("back") =>
             playing'.result = playing.result]_vars

(* A session that saw a first frame and then a playback error is closed   *)
(* and 'error' is logged                                                   *)
C17_Witness ==
  /\ Handler = "back"
  /\ Named("telemetry", "error") = 1
  /\ \E p \in Sessions : /\ Tally("call", "mediaSuccess", Undefined, p) = 1
                         /\ Tally("call", "mediaError", Undefined, p) = 1

(* C18: a rate command with a remote target active leaves the rate at 1    *)
(* when the target rejects the new rate and at the next value of the       *)
(* ladder when it accepts.                                                 *)
C18_RemoteRateReject ==
  [][Cmd("changePlaybackRate") /\ isCasting(St) =>
       /\ Cardinality(ProducedNamed("cast", "setRate")) = 1
       /\ \A i \in ProducedNamed("cast", "setRate") :
            playing'.playbackRate =
              IF trace'[i].arg = "rejected" THEN 4
              ELSE nextRate(playing.playbackRate, trace'[1].arg)]_vars

(* The remote target accepted 1.25 and then rejected 1.5 *)
C18_Witness ==
  /\ Handler = "changePlaybackRate"
  /\ isCasting(St)
  /\ \E i \in DOMAIN trace : trace[i].kind = "cast" /\ trace[i].name = "setRate"
                               /\ trace[i].arg = "rejected"
  /\ playing.playbackRate = 4
  /\ Tally("call", "changePlaybackRate", Undefined, 0) = 2

----------------------------------------------------------------------------
(* The engine's events about a torrent: torrentInfoHash, torrentMetadata,  *)
(* torrentFileSaved, torrentPosterSaved                                    *)

(* The fields of a summary that only the list of torrents reads *)
Details(name, displayName) ==
  [name |-> name, displayName |-> displayName, path |-> Undefined,
   magnetURI |-> Undefined, selections |-> <<>>]

(* {torrentKey: torrentKey, status: 'new'}: every other field is undefined *)
NewSummary(torrentKey) ==
  [Summary(torrentKey, "new", <<>>, 0) EXCEPT !.infoHash = Undefined]
    @@ Details(Undefined, Undefined)

(* torrentInfoHash without the search for a summary of the same infoHash *)
torrentInfoHashAddsDuplicate(s, torrentKey, infoHash) ==
  LET tix == getTorrentSummary(s, torrentKey)
  IN IF tix = 0
     THEN LET s1 == [s EXCEPT !.torrents = <<NewSummary(torrentKey)>> \o @]
              s2 == playSound(s1, "ADD")
          IN [s2 EXCEPT !.torrents[1].infoHash = infoHash]
     ELSE [s EXCEPT !.torrents[tix].infoHash = infoHash]

torrentInfoHash(s, torrentKey, infoHash) ==
  LET tix == getTorrentSummary(s, torrentKey)
  IN IF tix = 0
     THEN IF \E i \in DOMAIN s.torrents : s.torrents[i].infoHash = infoHash
          THEN onError(send(s, "wt-stop-torrenting", infoHash, 0),
                       "Cannot add duplicate torrent")
          ELSE LET s1 == [s EXCEPT !.torrents = <<NewSummary(torrentKey)>> \o @]
                   s2 == playSound(s1, "ADD")
               IN [s2 EXCEPT !.torrents[1].infoHash = infoHash]
     ELSE [s EXCEPT !.torrents[tix].infoHash = infoHash]

(* file.path is set and not empty *)
hasPath(file) == "path" \in DOMAIN file /\ file.path # ""

(* torrentMetadata without the check for a file list kept from before *)
torrentMetadataOverwritesFiles(s, torrentKey, torrentInfo) ==
  LET tix == getTorrentSummary(s, torrentKey)
      old == s.torrents[tix]
      s1 == [s EXCEPT
               !.torrents[tix].status = "downloading",
               !.torrents[tix].name = IF old.displayName # Undefined THEN old.displayName
                                      ELSE torrentInfo.name,
               !.torrents[tix].path = torrentInfo.path,
               !.torrents[tix].magnetURI = torrentInfo.magnetURI,
               !.torrents[tix].files = torrentInfo.files,
               !.torrents[tix].selections =
                  IF old.selections = <<>> THEN [i \in DOMAIN torrentInfo.files |-> TRUE]
                  ELSE old.selections,
               !.torrents[tix].defaultPlayFileIndex = pickFileToPlay(torrentInfo.files)]
      s2 == IF old.torrentFileName = Undefined
            THEN send(s1, "wt-save-torrent-file", torrentKey, 0) ELSE s1
  IN IF old.posterFileName = Undefined
     THEN send(s2, "wt-generate-torrent-poster", torrentKey, 0) ELSE s2

torrentMetadata(s, torrentKey, torrentInfo) ==
  LET tix == getTorrentSummary(s, torrentKey)
      old == s.torrents[tix]
      hasDetailedFileInfo == old.files # <<>> /\ hasPath(old.files[1])
      files == IF hasDetailedFileInfo THEN old.files ELSE torrentInfo.files
      s1 == [s EXCEPT
               !.torrents[tix].status = "downloading",
               !.torrents[tix].name = IF old.displayName # Undefined THEN old.displayName
                                      ELSE torrentInfo.name,
               !.torrents[tix].path = torrentInfo.path,
               !.torrents[tix].magnetURI = torrentInfo.magnetURI,
               !.torrents[tix].files = files,
               !.torrents[tix].selections =
                  IF old.selections = <<>> THEN [i \in DOMAIN files |-> TRUE]
                  ELSE old.selections,
               !.torrents[tix].defaultPlayFileIndex = pickFileToPlay(torrentInfo.files)]
      s2 == IF old.torrentFileName = Undefined
            THEN send(s1, "wt-save-torrent-file", torrentKey, 0) ELSE s1
  IN IF old.posterFileName = Undefined
     THEN send(s2, "wt-generate-torrent-poster", torrentKey, 0) ELSE s2

torrentFileSaved(s, torrentKey, torrentFileName) ==
  [s EXCEPT !.torrents[getTorrentSummary(s, torrentKey)].torrentFileName = torrentFileName]

torrentPosterSaved(s, torrentKey, posterFileName) ==
  [s EXCEPT !.torrents[getTorrentSummary(s, torrentKey)].posterFileName = posterFileName]

(* console.log only *)
onWarning(s, err) == s

torrentWarning(s, torrentKey, message) == onWarning(s, message)

(* message.startsWith('Cannot add duplicate torrent') *)
startsWithDuplicate(message) ==
  message \in {"Cannot add duplicate torrent", "Cannot add duplicate torrent k1"}

(* torrentError that leaves the status of the summary alone *)
torrentErrorKeepsStatus(s, torrentKey, message) ==
  onError(s, IF startsWithDuplicate(message) THEN "Cannot add duplicate torrent"
             ELSE message)

torrentError(s, torrentKey, message) ==
  LET s1 == onError(s, IF startsWithDuplicate(message)
                       THEN "Cannot add duplicate torrent" ELSE message)
      tix == getTorrentSummary(s1, torrentKey)
  IN IF tix # 0 THEN [s1 EXCEPT !.torrents[tix].status = "paused"] ELSE s1

----------------------------------------------------------------------------
(* The engine's events about a torrent: specification and properties *)

Keys == {"t1", "t2", "t3"}

(* The file list the engine reports: every file with its path *)
WithPath(files) == [i \in DOMAIN files |-> files[i] @@ [path |-> files[i].name]]

TorrentInfos ==
  {[name |-> "video", path |-> "/downloads", magnetURI |-> "magnet:video",
    files |-> WithPath(FilesVideo)],
   [name |-> "audio", path |-> "/downloads", magnetURI |-> "magnet:audio",
    files |-> WithPath(FilesAudio)]}

AggNames == {"wt-infohash", "wt-metadata", "wt-file-saved", "wt-poster",
             "wt-error", "wt-warning"}

Messages == {"Cannot add duplicate torrent k1", "No space left on device"}

AggEvents == SumTally({k \in DOMAIN tally : k[1] = "call" /\ k[2] \in AggNames})

(* One saved torrent, its list of files written by a version that kept no *)
(* paths or by this one                                                    *)
InitAgg ==
  /\ InitCommon
  /\ sys = SysDefault
  /\ \E files \in {FilesVideo, WithPath(FilesVideo)}, displayName \in {Undefined, "mine"} :
       torrents = << [Summary("t1", "paused", files, pickFileToPlay(files))
                        EXCEPT !.infoHash = "k1"] @@ Details("video", displayName) >>

(* ipc event 'wt-infohash' *)
WtInfoHash(torrentKey, infoHash) ==
  /\ AggEvents < MaxAggEvents
  /\ Becomes(torrentInfoHash(Enter(St, "wt-infohash", torrentKey, 0, infoHash),
                             torrentKey, infoHash))

(* ipc event 'wt-metadata', for a torrent the engine has announced *)
WtMetadata(torrentKey, torrentInfo) ==
  /\ AggEvents < MaxAggEvents
  /\ getTorrentSummary(St, torrentKey) # 0
  /\ Becomes(torrentMetadata(Enter(St, "wt-metadata", torrentKey, 0, torrentInfo.name),
                             torrentKey, torrentInfo))

(* ipc event 'wt-file-saved': the answer to a wt-save-torrent-file *)
WtFileSaved(torrentKey) ==
  /\ AggEvents < MaxAggEvents
  /\ getTorrentSummary(St, torrentKey) # 0
  /\ Tally("call", "wt-file-saved", torrentKey, 0)
       < Tally("ipc", "wt-save-torrent-file", torrentKey, 0)
  /\ Becomes(torrentFileSaved(Enter(St, "wt-file-saved", torrentKey, 0, Undefined),
                              torrentKey, "saved.torrent"))

(* ipc event 'wt-poster': the answer to a wt-generate-torrent-poster *)
WtPoster(torrentKey) ==
  /\ AggEvents < MaxAggEvents
  /\ getTorrentSummary(St, torrentKey) # 0
  /\ Tally("call", "wt-poster", torrentKey, 0)
       < Tally("ipc", "wt-generate-torrent-poster", torrentKey, 0)
  /\ Becomes(torrentPosterSaved(Enter(St, "wt-poster", torrentKey, 0, Undefined),
                                torrentKey, "poster.jpg"))

(* ipc event 'wt-error' *)
WtError(torrentKey, message) ==
  /\ AggEvents < MaxAggEvents
  /\ Becomes(torrentError(Enter(St, "wt-error", torrentKey, 0, message),
                          torrentKey, message))

(* ipc event 'wt-warning' *)
WtWarning(torrentKey, message) ==
  /\ AggEvents < MaxAggEvents
  /\ Becomes(torrentWarning(Enter(St, "wt-warning", torrentKey, 0, message),
                            torrentKey, message))

NextAgg ==
  \/ \E torrentKey \in Keys, message \in Messages : WtError(torrentKey, message)
  \/ \E torrentKey \in Keys, message \in Messages : WtWarning(torrentKey, message)
  \/ \E torrentKey \in Keys, infoHash \in Hashes : WtInfoHash(torrentKey, infoHash)
  \/ \E torrentKey \in Keys, torrentInfo \in TorrentInfos : WtMetadata(torrentKey, torrentInfo)
  \/ \E torrentKey \in Keys : WtFileSaved(torrentKey)
  \/ \E torrentKey \in Keys : WtPoster(torrentKey)

SpecAgg == InitAgg /\ [][NextAgg]_vars

(* C19: an infoHash event for a key without a summary is rejected when a  *)
(* summary has that infoHash already: no summary is created or changed,    *)
(* wt-stop-torrenting is sent for the infoHash and one 'Cannot add         *)
(* duplicate torrent' error is reported; otherwise a summary with the key, *)
(* status 'new' and the infoHash is created. For a key with a summary the  *)
(* infoHash is written to that summary and none is created.                *)
C19_InfoHash ==
  [][Cmd("wt-infohash") =>
       LET torrentKey == trace'[1].item
           infoHash == trace'[1].arg
           tix == getTorrentSummary(St, torrentKey)
       IN IF tix # 0
          THEN /\ torrents' = [torrents EXCEPT ![tix].infoHash = infoHash]
               /\ errors' = errors
          ELSE IF \E i \in DOMAIN torrents : torrents[i].infoHash = infoHash
          THEN /\ torrents' = torrents
               /\ Cardinality(Produced("ipc")) = 1
               /\ \A i \in Produced("ipc") :
                    trace'[i].name = "wt-stop-torrenting" /\ trace'[i].item = infoHash
               /\ errors' = Append(errors, "Cannot add duplicate torrent")
          ELSE /\ Len(torrents') = Len(torrents) + 1
               /\ \E i \in DOMAIN torrents' :
                    /\ torrents'[i].torrentKey = torrentKey
                    /\ torrents'[i].status = "new"
                    /\ torrents'[i].infoHash = infoHash
                    /\ torrents = [j \in 1..Len(torrents) |->
                                     torrents'[IF j < i THEN j ELSE j + 1]]
               /\ Produced("ipc") = {}
               /\ errors' = errors]_vars

(* A second key announced the infoHash of a summary created before it *)
C19_Witness ==
  /\ Handler = "wt-infohash"
  /\ Named("ipc", "wt-stop-torrenting") = 1
  /\ errors = <<"Cannot add duplicate torrent">>
  /\ Len(torrents) = 2
  /\ torrents[1].status = "new"
  /\ torrents[1].infoHash = trace[1].arg

(* C20: for each torrent, wt-save-torrent-file is sent at most once and    *)
(* wt-generate-torrent-poster is sent at most once.                        *)
C20_SaveAndPosterOnce ==
  \A torrentKey \in Keys :
    /\ Tally("ipc", "wt-save-torrent-file", torrentKey, 0) <= 1
    /\ Tally("ipc", "wt-generate-torrent-poster", torrentKey, 0) <= 1

(* The description the engine sent with the metadata event of this step *)
MetadataInfo == CHOOSE torrentInfo \in TorrentInfos : torrentInfo.name = trace'[1].arg

(* C21: a metadata event sets the summary's status to downloading; it     *)
(* fills the file list from the event only if the summary had no file     *)
(* list with per-file paths before; a file list that carries paths is     *)
(* left as it is, and so are selection flags that exist already.          *)
C21_MetadataKeepsFiles ==
  [][Cmd("wt-metadata") =>
       LET tix == getTorrentSummary(St, trace'[1].item)
           old == torrents[tix]
           new == torrents'[tix]
       IN /\ Len(torrents') = Len(torrents)
          /\ new.status = "downloading"
          /\ IF old.files # <<>> /\ \A i \in DOMAIN old.files : hasPath(old.files[i])
             THEN new.files = old.files
             ELSE new.files = MetadataInfo.files
          /\ old.selections # <<>> => new.selections = old.selections
          /\ \A j \in DOMAIN torrents : j # tix => torrents'[j] = torrents[j]]_vars

(* A second metadata event, describing other files, reached a summary     *)
(* whose file list had paths and whose selection flags were set           *)
C21_Witness ==
  /\ Handler = "wt-metadata"
  /\ trace[1].arg = "audio"
  /\ Tally("call", "wt-metadata", trace[1].item, 0) >= 2
  /\ LET tix == getTorrentSummary(St, trace[1].item)
     IN /\ torrents[tix].files = WithPath(FilesVideo)
        /\ torrents[tix].selections = <<TRUE, TRUE, TRUE>>
        /\ torrents[tix].status = "downloading"

(* C22: an error event of the engine for a torrent with a summary sets    *)
(* that summary's status to paused and appends exactly one entry to the   *)
(* error queue; a warning event changes no summary and appends nothing to *)
(* the error queue; neither changes the status of any other summary.      *)
C22_ErrorPausesWarningDoesNot ==
  [][/\ Cmd("wt-error") =>
          LET tix == getTorrentSummary(St, trace'[1].item)
          IN /\ Len(errors') = Len(errors) + 1
             /\ SubSeq(errors', 1, Len(errors)) = errors
             /\ Len(torrents') = Len(torrents)
             /\ tix # 0 => torrents'[tix] = [torrents[tix] EXCEPT !.status = "paused"]
             /\ \A j \in DOMAIN torrents : j # tix => torrents'[j] = torrents[j]
     /\ Cmd("wt-warning") => torrents' = torrents /\ errors' = errors]_vars

(* An error event reached a downloading torrent next to another torrent *)
C22_Witness ==
  /\ Handler = "wt-error"
  /\ Len(errors) = 1
  /\ Len(torrents) = 2
  /\ LET tix == getTorrentSummary(St, trace[1].item)
     IN /\ tix # 0
        /\ torrents[tix].status = "paused"
        /\ Tally("call", "wt-metadata", torrents[tix].torrentKey, 0) = 1
        /\ \E j \in DOMAIN torrents : j # tix /\ torrents[j].status = "new"

----------------------------------------------------------------------------
(* Subtitle discovery *)

(* The ingests the step started *)
Started == SubSeq(ingests', Len(ingests) + 1, Len(ingests'))

(* The files of the playing torrent that discovery has to offer, in the  *)
(* order of the file list: subtitle files with every piece present       *)
Discoverable ==
  LET ts == torrents'[getTorrentSummary(St, playing'.infoHash)]
      ok == {i \in DOMAIN ts.files :
               /\ ts.files[i].name \in {"a.srt", "b.srt", "c.vtt"}
               /\ ts.progress.files[i].numPieces = ts.progress.files[i].numPiecesPresent}
  IN SelectSeq([i \in DOMAIN ts.files |-> i], LAMBDA i : i \in ok)

(* The step started exactly one ingest per discoverable file, each with *)
(* autoSelect = false                                                   *)
Discovers ==
  /\ Len(Started) = Len(Discoverable)
  /\ \A n \in DOMAIN Started :
       /\ Started[n].files =
            <<torrents'[getTorrentSummary(St, playing'.infoHash)].files[Discoverable[n]].name>>
       /\ ~Started[n].autoSelect

(* A session starts to wait for the content server in this step *)
StartsServerWait ==
  \E sess \in DOMAIN sessions' :
    /\ sessions'[sess].phase = "waitServer"
    /\ sess \in DOMAIN sessions => sessions[sess].phase # "waitServer"

(* The step is a read of a file of an ingest that discovery started *)
DiscoveryRead ==
  /\ trace'[1].name \in {"subtitleData", "subtitleError"}
  /\ ~ingests[trace'[1].sess].autoSelect

----------------------------------------------------------------------------
(* The choice of the file to play: specification and properties *)

File(name, kind, length) ==
  [name |-> name, kind |-> kind, length |-> length, currentTime |-> 0,
   duration |-> 0, audioInfo |-> FALSE]

(* Lists of files: videos of different and of equal size, before and     *)
(* after audio files; audio files only; nothing playable                 *)
FileLists ==
  {<< File("a.mp4", "video", 3), File("b.mkv", "video", 2), File("s.mp3", "audio", 5) >>,
   << File("r.txt", "other", 9), File("a.mp4", "video", 2), File("b.mkv", "video", 3) >>,
   << File("s.mp3", "audio", 9), File("a.mp4", "video", 2), File("b.mkv", "video", 2) >>,
   << File("r.txt", "other", 9), File("s.mp3", "audio", 1), File("t.mp3", "audio", 3) >>,
   << File("r.txt", "other", 1), File("n.nfo", "other", 2) >>}

(* One saved torrent; state.saved is read from disk, with the             *)
(* defaultPlayFileIndex that was saved for the torrent, if any            *)
InitPick ==
  /\ InitCommon
  /\ sys = SysDefault
  /\ \E status \in {"paused", "downloading"}, files \in FileLists :
       \E default \in {0} \cup DOMAIN files :
         torrents = << Summary("k1", status, files, default) >>

PlayAny(index) ==
  /\ Len(sessions) < MaxPickOpens
  /\ Play("k1", index)

NextPick ==
  \/ \E index \in 0..3 : PlayAny(index)
  \/ \E sess \in Sessions : Timeout(sess)
  \/ WtReady("k1")
  \/ WtServer("k1")
  \/ Back

SpecPick == InitPick /\ [][NextPick]_vars

(* The indices the rule of the claim allows for a torrent and the index *)
(* given to open(); 0 stands for undefined                              *)
Resolution(ts, given) ==
  LET videos == {i \in DOMAIN ts.files : ts.files[i].kind = "video"}
      audios == {i \in DOMAIN ts.files : ts.files[i].kind = "audio"}
  IN IF given # 0 THEN {given}
     ELSE IF ts.defaultPlayFileIndex # 0 THEN {ts.defaultPlayFileIndex}
     ELSE IF videos # {}
     THEN {i \in videos : \A j \in videos : ts.files[j].length <= ts.files[i].length}
     ELSE IF audios # {} THEN {i \in audios : \A j \in audios : i <= j}
     ELSE {0}

(* C24: an open without an index plays the cached default of the torrent *)
(* if there is one; else a largest video file if the torrent has a video *)
(* file; else the first audio file of the list; else nothing, and the    *)
(* open fails as unplayable. An open with an index plays that index.     *)
C24_FileIndexResolution ==
  [][Cmd("play") =>
       LET sess == trace'[1].sess
           ts == torrents[getTorrentSummary(St, trace'[1].item)]
           allowed == Resolution(ts, sessions'[sess].given)
       IN IF allowed = {0}
          THEN /\ ProducedNamed("cb", "UnplayableError") # {}
               /\ sessions'[sess].phase = "done"
          ELSE /\ sessions'[sess].index \in allowed
               /\ ProducedNamed("cb", "UnplayableError") = {}
               /\ ts.status # "paused" => playing'.fileIndex = sessions'[sess].index]_vars

(* An open without an index, of a torrent without a cached default, took *)
(* the larger video file, which is not the first video file of the list  *)
C24_Witness ==
  /\ Handler = "play"
  /\ sessions[trace[1].sess].given = 0
  /\ torrents[1].defaultPlayFileIndex = 0
  /\ torrents[1].files[2].kind = "video"
  /\ torrents[1].files[3].length > torrents[1].files[2].length
  /\ sessions[trace[1].sess].index = 3
  /\ playing.fileIndex = 3

----------------------------------------------------------------------------
(* The position to resume from: specification and properties *)

(* currentTime and duration a file was saved with; duration 0: unknown *)
Positions ==
  {<<0, 100>>, <<50, 100>>, <<89, 100>>, <<90, 100>>, <<80, 90>>, <<20, 0>>}

Watched(name, length, position) ==
  [File(name, "video", length) EXCEPT !.currentTime = position[1],
                                      !.duration = position[2]]

(* One saved torrent of two video files, watched up to some position *)
InitResume ==
  /\ InitCommon
  /\ sys = SysDefault
  /\ \E status \in {"paused", "downloading"}, pa \in Positions,
        pb \in {<<0, 100>>, <<50, 100>>} :
       torrents = << Summary("k1", status,
                             << Watched("a.mp4", 2, pa), Watched("b.mkv", 3, pb) >>, 2) >>

NextResume ==
  \/ \E index \in 1..2 : Play("k1", index)
  \/ \E sess \in Sessions : Timeout(sess)
  \/ WtReady("k1")
  \/ WtServer("k1")
  \/ Back

SpecResume == InitResume /\ [][NextResume]_vars

(* The sessions that start to wait for the content server in this step *)
Opening ==
  {sess \in DOMAIN sessions' :
     /\ sessions'[sess].phase = "waitServer"
     /\ sess \in DOMAIN sessions => sessions[sess].phase # "waitServer"}

(* C25: when a session is opened on a file with position p and duration  *)
(* d, the seek target is p if p > 0, p < 0.9 * d and d - p > 10, and     *)
(* there is no seek target in every other case.                          *)
C25_ResumeRule ==
  [][\A sess \in Opening :
       Cardinality(Opening) = 1 =>
         LET file == torrents[1].files[sessions'[sess].index]
             p == file.currentTime
             d == file.duration
         IN playing'.jumpToTime =
              IF p > 0 /\ 10 * p < 9 * d /\ d - p > 10 THEN p ELSE -1]_vars

----------------------------------------------------------------------------
(* relabelSubtitles as a function of the track list *)

TrackPaths == <<"a.srt", "b.srt", "c.vtt", "d.vtt">>

(* The languages of the track lists of up to MaxTracks tracks *)
TrackLanguages ==
  UNION {[1..n -> {"English", "German", "Subtitle"}] : n \in 0..MaxTracks}

(* A player with a track list as the loop of addSubtitles leaves it: one *)
(* track per file, every label as loadSubtitle made it                   *)
InitRelabel ==
  /\ \E languages \in TrackLanguages :
       playing = [getDefaultPlayState EXCEPT
                    !.type = "video",
                    !.subtitles.tracks =
                       [i \in DOMAIN languages |->
                          [language |-> languages[i], label |-> <<languages[i]>>,
                           filePath |-> TrackPaths[i]]]]
  /\ torrents = <<>>
  /\ server = Null
  /\ errors = <<>>
  /\ location = [url |-> "player", pending |-> 0, page |-> 0]
  /\ sessions = <<>>
  /\ ingests = <<>>
  /\ engine = [ready |-> [h \in Hashes |-> 0], server |-> [h \in Hashes |-> 0]]
  /\ trace = <<>>
  /\ tally = <<>>
  /\ window = [title |-> "WebTorrent", isFocused |-> TRUE, isFullScreen |-> FALSE,
               bounds |-> Null]
  /\ dock = [badge |-> 0]
  /\ previousVolume = 10
  /\ sys = SysDefault

Relabel ==
  /\ Tally("call", "relabelSubtitles", Undefined, 0) < MaxRelabels
  /\ Becomes(relabelSubtitles(Enter(St, "relabelSubtitles", Undefined, 0, Undefined)))

NextRelabel == Relabel

SpecRelabel == InitRelabel /\ [][NextRelabel]_vars

(* C26: relabelSubtitles changes no track's language, file path or       *)
(* position, and run after itself it changes no label.                   *)
C26_RelabelIdempotent ==
  [][Cmd("relabelSubtitles") =>
       /\ Len(playing'.subtitles.tracks) = Len(Tracks)
       /\ \A i \in DOMAIN Tracks :
            /\ playing'.subtitles.tracks[i].language = Tracks[i].language
            /\ playing'.subtitles.tracks[i].filePath = Tracks[i].filePath
       /\ (Len(trace) > 0 /\ Handler = "relabelSubtitles")
            => playing'.subtitles.tracks = Tracks]_vars

(* A list with two tracks of one language was relabelled twice *)
C26_Witness ==
  /\ Handler = "relabelSubtitles"
  /\ Tally("call", "relabelSubtitles", Undefined, 0) = 2
  /\ Len(Tracks) = 3
  /\ Tracks[1].label = <<"English">>
  /\ Tracks[2].label = <<"German">>
  /\ Tracks[3].label = <<"English", 2>>

----------------------------------------------------------------------------
(* Sessions after their timeout and after their close *)

CallbackResults == {"none", TimeoutMsg, "UnplayableError"}

(* The times the callback of session sess was called *)
Callbacks(sess) ==
  SumTally({k \in DOMAIN tally :
              k[1] = "cb" /\ k[2] \in CallbackResults /\ k[4] = sess})

(* C27: the completion callback of an open request is called at most   *)
(* once, whatever the order of timeout, engine-ready and server-ready, *)
(* and also when the item is opened again after a timeout while the    *)
(* server-ready event of the earlier request is still to come.         *)
C27_CallbackAtMostOnce == \A sess \in DOMAIN sessions : Callbacks(sess) <= 1

(* C28: after the player was closed while a session waited for the    *)
(* engine or for the content server, the timer of that session is not *)
(* pending, and no timeout of it is reported: no telemetry, no        *)
(* playStatus 'timeout', no error sound, no callback with the error.  *)
C28_CloseCancelsTimer ==
  [][/\ (Cmd("back") /\ Machine \in {"WaitingForEngineReady", "WaitingForServer"})
          => sessions'[location.page].timer # "armed"
     /\ Cmd("timeout") => location.page = trace'[1].sess]_vars

(* C29: while the machine is Idle the player state is the default one: *)
(* no infoHash, no file index, no type, no subtitle tracks.            *)
C29_IdleIsDefault ==
  Machine = "Idle" =>
    /\ playing.infoHash = Null
    /\ playing.fileIndex = 0
    /\ playing.type = Null
    /\ playing.subtitles.tracks = <<>>

(* C30: a session whose timer has fired sends no wt-start-server any    *)
(* more and writes neither infoHash nor file index of the player state. *)
C30_NothingAfterTimeout ==
  [][\A sess \in DOMAIN sessions :
       sessions[sess].timer = "fired" =>
         /\ \A i \in ProducedNamed("ipc", "wt-start-server") : trace'[i].sess # sess
         /\ (sessions[sess].phase = "waitReady" /\ sessions'[sess].phase # "waitReady")
              => /\ playing'.infoHash = playing.infoHash
                 /\ playing'.fileIndex = playing.fileIndex]_vars

----------------------------------------------------------------------------
(* Two summaries of one torrent; the rate commands as inverses *)

(* C31: no two summaries carry the same infoHash, whatever infoHash      *)
(* events arrive, for new keys and for keys that have a summary.         *)
C31_UniqueInfoHash ==
  \A i, j \in DOMAIN torrents :
    (torrents[i].infoHash # Undefined /\ torrents[i].infoHash = torrents[j].infoHash)
      => i = j

(* C32: from rate 1, with no remote target, the rate is never 0 and lies *)
(* in [-16, 16] after every rate command; and when a command changes the *)
(* rate, the command in the other direction, given next, yields the rate *)
(* from before.                                                          *)
C32_RateBoundedAndInvertible ==
  [][\A direction \in {-1, 1} :
       RateStep(direction) =>
         /\ playing'.playbackRate # 0
         /\ playing'.playbackRate >= -64 /\ playing'.playbackRate <= 64
         /\ playing'.playbackRate # playing.playbackRate =>
              nextRate(playing'.playbackRate, -direction) = playing.playbackRate]_vars

(* Five increases took the rate from 1 to 4, and the decrease after them *)
(* took it back to 2, where the fifth increase had found it              *)
C32_Witness ==
  /\ Handler = "changePlaybackRate"
  /\ trace[1].arg = -1
  /\ Tally("call", "changePlaybackRate", Undefined, 0) = 6
  /\ playing.playbackRate = 8

====
